---- MODULE Spec2Model ----
(***************************************************************************)
(* A model of the abode repository: the curation script                    *)
(* (src/image_remover.py), the design-option parser and the interactive    *)
(* three-step flow (src/streamlit_app.py), and the acquisition script      *)
(* (src/style_image_downloader.py).                                        *)
(*                                                                         *)
(* Text is modelled character by character: a Python str is a sequence of  *)
(* one-character strings, so that upper(), strip(), startswith(), find()   *)
(* and the "in" test are computed as Python computes them.                 *)
(***************************************************************************)
EXTENDS Integers, Sequences, FiniteSets, TLC

VARIABLES
    \* ---- curation: src/image_remover.py, process_directories ----
    dry_run,        \* the dry_run argument
    limit,          \* the limit argument, 0 for None
    api_key,        \* whether OPENAI_API_KEY is set (os.getenv)
    files,          \* image files on disk: <<style, stem, ext>>
    sidecars,       \* metadata files on disk: <<style, stem>> is <stem>.txt
    files0,         \* the image files at the start of the run
    sidecars0,      \* the metadata files at the start of the run
    stats,          \* the stats dict
    style_dirs,     \* the style directories still to process
    style_name,     \* the style directory being processed
    image_files,    \* the (limited) listing of the current style directory
    idx,            \* enumerate()'s i: images of the listing already processed
    results_file,   \* whether the results file has been written
    last,           \* what the last processed image was and what was logged
    cpc,            \* position in process_directories
    \* ---- parser: src/streamlit_app.py, generate_design_options ----
    response_text,  \* the model's reply, or ApiFailure
    num_options,    \* the num_options argument
    options,        \* the returned list
    ppc,            \* position of the parser run
    \* ---- interactive flow: src/streamlit_app.py, main ----
    session_state,  \* st.session_state: a function from the keys present
    styles_loaded,  \* whether load_styles() finds styles with images
    reply_used,     \* the reply the stored design_options were parsed from
    gen_inputs,     \* the arguments of the last generate_design_options call
    gen_calls,      \* calls of generate_design_options since the session was cleared
    \* ---- acquisition: src/style_image_downloader.py ----
    env,            \* the two API keys of the process environment
    max_images,     \* download_pexels_images' max_images
    disk,           \* room_styles/: styles.json, directories, files
    disk0,          \* room_styles/ at the start of the run
    downloader,     \* whether main created a StyleDownloader
    rn,             \* the locals of run()
    dl,             \* the locals of download_pexels_images
    requested,      \* the kinds of request issued so far
    fault,          \* the exception that reached run()'s except, or "none"
    apc             \* position in main / run / download_pexels_images

cvars == <<dry_run, limit, api_key, files, sidecars, files0, sidecars0, stats,
           style_dirs, style_name, image_files, idx, results_file, last, cpc>>
pvars == <<response_text, num_options, options, ppc>>
svars == <<session_state, styles_loaded, reply_used, gen_inputs, gen_calls>>
avars == <<env, max_images, disk, disk0, downloader, rn, dl, requested, fault, apc>>
vars == <<cvars, pvars, svars, avars>>

-----------------------------------------------------------------------------
(* Python str operations on sequences of characters.                       *)

LowerLetters == <<"a","b","c","d","e","f","g","h","i","j","k","l","m",
                  "n","o","p","q","r","s","t","u","v","w","x","y","z">>
UpperLetters == <<"A","B","C","D","E","F","G","H","I","J","K","L","M",
                  "N","O","P","Q","R","S","T","U","V","W","X","Y","Z">>

\* str.upper() on one character
upper_char(c) ==
    IF \E k \in DOMAIN LowerLetters : LowerLetters[k] = c
    THEN UpperLetters[CHOOSE k \in DOMAIN LowerLetters : LowerLetters[k] = c]
    ELSE c

\* str.upper()
upper(s) == [k \in DOMAIN s |-> upper_char(s[k])]

\* the characters str.strip() removes
is_space(c) == c \in {" ", "\n", "\t", "\r"}

\* str.strip()
strip(s) ==
    LET keep == {k \in DOMAIN s : ~is_space(s[k])}
    IN  IF keep = {} THEN <<>>
        ELSE SubSeq(s, CHOOSE k \in keep : \A m \in keep : k <= m,
                       CHOOSE k \in keep : \A m \in keep : k >= m)

\* str.startswith(p)
startswith(s, p) == Len(p) <= Len(s) /\ SubSeq(s, 1, Len(p)) = p

\* the 0-based offsets at which sub occurs in s
occurrences(s, sub) ==
    {k \in 0..(Len(s) - Len(sub)) : SubSeq(s, k + 1, k + Len(sub)) = sub}

\* sub in s
contains(s, sub) == occurrences(s, sub) # {}

\* str.find(sub): the lowest offset, -1 when there is none
find(s, sub) ==
    IF occurrences(s, sub) = {} THEN -1
    ELSE CHOOSE k \in occurrences(s, sub) : \A m \in occurrences(s, sub) : k <= m

\* str.split("\n"): the pieces between consecutive line breaks
split_lines(s) ==
    LET breaks == {k \in DOMAIN s : s[k] = "\n"}
        \* the position of the n-th line break, 0 before the first piece and
        \* Len(s) + 1 after the last
        break_at(n) ==
            IF n = 0 THEN 0
            ELSE IF n > Cardinality(breaks) THEN Len(s) + 1
            ELSE CHOOSE k \in breaks : Cardinality({m \in breaks : m <= k}) = n
    IN  [n \in 1..(Cardinality(breaks) + 1) |->
            SubSeq(s, break_at(n - 1) + 1, break_at(n) - 1)]

-----------------------------------------------------------------------------
(* base64.b64encode(...).decode(): bytes are 0..255, the result is a       *)
(* sequence of alphabet indices 0..63, with 64 for the padding "=".        *)

b64_pad == 64    \* the 65th symbol, "="

RECURSIVE b64encode(_)
b64encode(bytes) ==
    IF Len(bytes) = 0 THEN <<>>
    ELSE IF Len(bytes) = 1 THEN
        <<bytes[1] \div 4, (bytes[1] % 4) * 16, b64_pad, b64_pad>>
    ELSE IF Len(bytes) = 2 THEN
        <<bytes[1] \div 4, (bytes[1] % 4) * 16 + bytes[2] \div 16,
          (bytes[2] % 16) * 4, b64_pad>>
    ELSE <<bytes[1] \div 4, (bytes[1] % 4) * 16 + bytes[2] \div 16,
           (bytes[2] % 16) * 4 + bytes[3] \div 64, bytes[3] % 64>>
         \o b64encode(SubSeq(bytes, 4, Len(bytes)))

\* the file contents the model draws from
ByteSeqs == {<<>>, <<255>>, <<1, 2, 3, 4>>}

-----------------------------------------------------------------------------
(* Curation: src/image_remover.py                                          *)

Styles == <<"boho", "nordic">>          \* the style directories, in iterdir order
\* the file stems a style directory may hold, in listing order
StemOrder(style) == IF style = "boho" THEN <<"a", "b">> ELSE <<"a">>
Exts == <<"jpg", "jpeg", "png">>        \* the three globs, in the order they are joined
MaxImages == 2                          \* image files on disk at the start
MaxLimit == 1                           \* the largest --limit tried

Range(s) == {s[k] : k \in DOMAIN s}
AllFiles ==
    {<<style, st, ext>> : style \in Range(Styles), st \in {"a", "b"}, ext \in Range(Exts)}

py_prefix_whole(s, n) == s

\* Python's s[:n]
py_prefix(s, n) ==
    IF n >= 0 THEN SubSeq(s, 1, IF n < Len(s) THEN n ELSE Len(s))
    ELSE SubSeq(s, 1, IF Len(s) + n > 0 THEN Len(s) + n ELSE 0)

YES == <<"Y","E","S">>
NO == <<"N","O">>

\* what open(image_path, "rb").read() can give: an exception, or the bytes
ReadOutcomes ==
    {[ok |-> FALSE, bytes |-> <<>>]} \cup {[ok |-> TRUE, bytes |-> b] : b \in ByteSeqs}

\* what client.chat.completions.create can give: an exception, or a reply
ApiReplies ==
    {[ok |-> FALSE, text |-> <<>>]} \cup
    {[ok |-> TRUE, text |-> t] : t \in
        { <<"Y","E","S">>, <<" ","y","e","s","\n">>, <<"N","o",".">>,
          <<"m","a","y","b","e">>, <<"u","n","k","n","o","w","n">>, <<>> }}

\* the follow-up request for a reason: an exception, or a sentence
DetailReplies ==
    {[ok |-> FALSE, text |-> <<>>],
     [ok |-> TRUE, text |-> <<" ","b","l","u","r","r","y","."," ">>]}

\* encode_image: None on an exception, else the base64 text
encode_image(read) ==
    IF read.ok THEN [none |-> FALSE, val |-> b64encode(read.bytes)]
    ELSE [none |-> TRUE, val |-> <<>>]

\* a request that was never made
NotCalled == [ok |-> FALSE, text |-> <<>>]

\* line 51: the first request is made only with a non-empty encoding
api_called(read) == ~encode_image(read).none /\ encode_image(read).val # <<>>

\* lines 99-102: the follow-up request is made only after a NO that is no YES
detail_called(reply) ==
    /\ reply.ok
    /\ ~contains(upper(strip(reply.text)), YES)
    /\ contains(upper(strip(reply.text)), NO)

evaluate_unclear_as_good(read, reply, detail) ==
    LET encoded_image == encode_image(read)
        text == upper(strip(reply.text))
    IN  IF encoded_image.none \/ encoded_image.val = <<>> THEN
            [is_good |-> FALSE, kind |-> "Failed to encode image", text |-> <<>>]
        ELSE IF ~reply.ok THEN
            [is_good |-> FALSE, kind |-> "API error: ", text |-> <<>>]
        ELSE IF contains(text, NO) /\ ~contains(text, YES) THEN
            IF detail.ok
            THEN [is_good |-> FALSE, kind |-> "detail", text |-> strip(detail.text)]
            ELSE [is_good |-> FALSE, kind |-> "API error: ", text |-> <<>>]
        ELSE [is_good |-> TRUE, kind |-> "Good quality interior design image", text |-> <<>>]

\* evaluate_image(client, image_path): (is_good_image, reason)
evaluate_image(read, reply, detail) ==
    LET encoded_image == encode_image(read)
        text == upper(strip(reply.text))
    IN  IF encoded_image.none \/ encoded_image.val = <<>> THEN
            [is_good |-> FALSE, kind |-> "Failed to encode image", text |-> <<>>]
        ELSE IF ~reply.ok THEN
            [is_good |-> FALSE, kind |-> "API error: ", text |-> <<>>]
        ELSE IF contains(text, YES) THEN
            [is_good |-> TRUE, kind |-> "Good quality interior design image", text |-> <<>>]
        ELSE IF contains(text, NO) THEN
            IF detail.ok
            THEN [is_good |-> FALSE, kind |-> "detail", text |-> strip(detail.text)]
            ELSE [is_good |-> FALSE, kind |-> "API error: ", text |-> <<>>]
        ELSE [is_good |-> FALSE, kind |-> "Unclear evaluation: ", text |-> text]

\* line 279: main passes dry_run = not args.delete
main_dry_run(delete) == ~delete

should_delete_always(dr) == TRUE

\* line 227: files are deleted only when this is no dry run
should_delete(dr) == ~dr

unlink_noop(on_disk, f) == on_disk

\* Path.unlink() that does not raise (lines 229, 233)
unlink(on_disk, f) == on_disk \ {f}

\* style_dir.glob("*.<ext>")
glob(style, ext) ==
    LET stems == SelectSeq(StemOrder(style), LAMBDA st : <<style, st, ext>> \in files)
    IN  [k \in 1..Len(stems) |-> <<style, stems[k], ext>>]

\* image_file.with_suffix(".txt")
with_suffix_txt(f) == <<f[1], f[2]>>

ZeroStyle == [total |-> 0, kept |-> 0, removed |-> 0, errors |-> 0]
ZeroStats == [total_processed |-> 0, kept |-> 0, removed |-> 0, errors |-> 0,
              by_style |-> <<>>]
NoLast == [file |-> <<"", "", "">>, is_good |-> FALSE, kind |-> "none",
           unlinked |-> FALSE, unlink_raised |-> FALSE]

bump_style_only(st, style, key, skey) == [st EXCEPT !.by_style[style][skey] = @ + 1]

bump_global_only(st, style, key, skey) == [st EXCEPT ![key] = @ + 1]

\* one of the four counters of stats, bumped globally and for the style
bump(st, style, key, skey) ==
    [st EXCEPT ![key] = @ + 1, !.by_style[style][skey] = @ + 1]

CurateInit ==
    /\ \E delete \in BOOLEAN : dry_run = main_dry_run(delete)
    /\ limit \in 0..MaxLimit
    /\ api_key \in BOOLEAN
    /\ files \in {F \in SUBSET {f \in AllFiles : f[2] \in Range(StemOrder(f[1]))} :
                    Cardinality(F) <= MaxImages}
    /\ sidecars \in SUBSET {with_suffix_txt(f) : f \in files}
    /\ files0 = files
    /\ sidecars0 = sidecars
    /\ stats = ZeroStats
    /\ style_dirs = <<>>
    /\ style_name = ""
    /\ image_files = <<>>
    /\ idx = 0
    /\ results_file = FALSE
    /\ last = NoLast
    /\ cpc = "start"

\* lines 139-167: the key check, the stats dict, the directory listing
Start ==
    /\ cpc = "start"
    /\ IF ~api_key
       THEN /\ cpc' = "done"
            /\ UNCHANGED <<stats, style_dirs>>
       ELSE /\ stats' = ZeroStats
            /\ style_dirs' = Styles
            /\ cpc' = "styles"
    /\ UNCHANGED <<dry_run, limit, api_key, files, sidecars, files0, sidecars0,
                   style_name, image_files, idx, results_file, last>>
    /\ UNCHANGED <<pvars, svars, avars>>

\* lines 170-195: enter the next style directory, list and limit its images
EnterStyle ==
    /\ cpc = "styles"
    /\ style_dirs # <<>>
    /\ LET style == Head(style_dirs)
           listing == glob(style, "jpg") \o glob(style, "jpeg") \o glob(style, "png")
       IN  /\ style_name' = style
           /\ stats' = [stats EXCEPT !.by_style = (style :> ZeroStyle) @@ @]
           /\ image_files' =
                IF limit # 0 /\ stats.total_processed + Len(listing) > limit
                THEN py_prefix(listing, limit - stats.total_processed)
                ELSE listing
    /\ idx' = 0
    /\ cpc' = "images"
    /\ UNCHANGED <<dry_run, limit, api_key, files, sidecars, files0, sidecars0,
                   style_dirs, results_file, last>>
    /\ UNCHANGED <<pvars, svars, avars>>

\* lines 198-243: one iteration of the image loop, evaluate_image returning ev
ProcessImageAs(ev) ==
    /\ cpc = "images"
    /\ idx < Len(image_files)
    /\ LET image_file == image_files[idx + 1]
            metadata_file == with_suffix_txt(image_file)
            counted == bump(stats, style_name, "total_processed", "total")
            removed == bump(counted, style_name, "removed", "removed")
            log(unlinked, raised) ==
                [file |-> image_file, is_good |-> ev.is_good, kind |-> ev.kind,
                 unlinked |-> unlinked, unlink_raised |-> raised]
        IN  IF ev.is_good THEN
                \* lines 214-217
                /\ stats' = bump(counted, style_name, "kept", "kept")
                /\ last' = log(FALSE, FALSE)
                /\ UNCHANGED <<files, sidecars>>
            ELSE IF ~should_delete(dry_run) THEN
                \* lines 218-227
                /\ stats' = removed
                /\ last' = log(FALSE, FALSE)
                /\ UNCHANGED <<files, sidecars>>
            ELSE
                \* lines 228-238: image_file.unlink(), then metadata_file.unlink()
                \/ /\ files' = unlink(files, image_file)
                   /\ sidecars' = IF metadata_file \in sidecars
                                  THEN unlink(sidecars, metadata_file)
                                  ELSE sidecars
                   /\ stats' = removed
                   /\ last' = log(TRUE, FALSE)
                \/ \* image_file.unlink() raises: nothing is deleted
                   /\ stats' = bump(removed, style_name, "errors", "errors")
                   /\ last' = log(FALSE, TRUE)
                   /\ UNCHANGED <<files, sidecars>>
                \/ \* metadata_file.unlink() raises after the image is gone
                   /\ metadata_file \in sidecars
                   /\ files' = unlink(files, image_file)
                   /\ stats' = bump(removed, style_name, "errors", "errors")
                   /\ last' = log(TRUE, TRUE)
                   /\ UNCHANGED sidecars
    /\ idx' = idx + 1
    /\ UNCHANGED <<dry_run, limit, api_key, files0, sidecars0, style_dirs,
                   style_name, image_files, results_file, cpc>>
    /\ UNCHANGED <<pvars, svars, avars>>

\* lines 198-243 with whatever the file system and the API give
ProcessImage ==
    \E read \in ReadOutcomes :
    \E reply \in (IF api_called(read) THEN ApiReplies ELSE {NotCalled}) :
    \E detail \in (IF detail_called(reply) THEN DetailReplies ELSE {NotCalled}) :
        ProcessImageAs(evaluate_image(read, reply, detail))

\* lines 245-248: the image loop of one style is over
CompleteStyle ==
    /\ cpc = "images"
    /\ idx = Len(image_files)
    /\ style_dirs' = Tail(style_dirs)
    /\ cpc' = "styles"
    /\ UNCHANGED <<dry_run, limit, api_key, files, sidecars, files0, sidecars0,
                   stats, style_name, image_files, idx, results_file, last>>
    /\ UNCHANGED <<pvars, svars, avars>>

\* lines 250-269: save the results and print the summary
SaveResults ==
    /\ cpc = "styles"
    /\ style_dirs = <<>>
    /\ results_file' = TRUE
    /\ cpc' = "done"
    /\ UNCHANGED <<dry_run, limit, api_key, files, sidecars, files0, sidecars0,
                   stats, style_dirs, style_name, image_files, idx, last>>
    /\ UNCHANGED <<pvars, svars, avars>>

\* room_styles/ when it does not exist
EmptyDisk ==
    [styles_file |-> "missing", styles_json |-> <<>>, dirs |-> {},
     descriptions |-> {}, images |-> {}, metas |-> {}]
NoRun ==
    [existing_styles |-> <<>>, styles_to_download |-> <<>>, i |-> 0,
     total_images |-> 0, reply |-> [kind |-> "none", styles |-> <<>>]]
NoDownload ==
    [ki |-> 0, qi |-> 0, total_downloaded |-> 0, images_per_keyword |-> 0,
     outcome |-> "none", shuffled |-> <<>>, remaining |-> 0, photos |-> <<>>,
     pi |-> 0, accepted |-> <<>>, first |-> 0, io_error |-> FALSE]

AcquireIdle ==
    /\ env = [openai_key |-> "", pexels_key |-> ""]
    /\ max_images = 0
    /\ disk = EmptyDisk
    /\ disk0 = EmptyDisk
    /\ downloader = FALSE
    /\ rn = NoRun
    /\ dl = NoDownload
    /\ requested = {}
    /\ fault = "none"
    /\ apc = "idle"

ParseIdle ==
    /\ response_text = [ok |-> FALSE, text |-> <<>>]
    /\ num_options = 0
    /\ options = <<>>
    /\ ppc = "idle"

SessionIdle ==
    /\ session_state = <<>>
    /\ styles_loaded = FALSE
    /\ reply_used = [ok |-> FALSE, text |-> <<>>]
    /\ gen_inputs = <<>>
    /\ gen_calls = 0

CurateNext ==
    \/ Start
    \/ EnterStyle
    \/ ProcessImage
    \/ CompleteStyle
    \/ SaveResults

\* a run of the curation tool: the other two programs are not running
CurateStart == CurateInit /\ ParseIdle /\ SessionIdle /\ AcquireIdle

SpecCurate == CurateStart /\ [][CurateNext]_vars

-----------------------------------------------------------------------------
(* The design-option parser: src/streamlit_app.py, generate_design_options *)

MaxMarkers == 5     \* marker lines in a generated reply
MaxOptions == 5     \* the largest num_options tried

Digits == <<"0","1","2","3","4","5","6","7","8","9">>

\* str(n) for n >= 0, as in the f-strings of lines 266 and 293
RECURSIVE int_to_str(_)
int_to_str(n) ==
    IF n < 10 THEN <<Digits[n + 1]>>
    ELSE int_to_str(n \div 10) \o <<Digits[(n % 10) + 1]>>

NL == <<"\n">>
OPTION_1 == <<"O","P","T","I","O","N"," ","1">>
OPTION_ == <<"O","P","T","I","O","N"," ">>
DESIGN_OPTION_1 == <<"D","E","S","I","G","N"," ","O","P","T","I","O","N"," ","1">>
DESIGN_OPTION_ == <<"D","E","S","I","G","N"," ","O","P","T","I","O","N"," ">>
DESIGN_VARIATION_ == <<"D","e","s","i","g","n"," ","V","a","r","i","a","t","i","o","n"," ">>
ERROR_GENERATING == <<"E","r","r","o","r"," ","g","e","n","e","r","a","t","i","n","g"," ","d","e","s","i","g","n",":"," ">>

\* lines 229-240 and 248-259: accumulate the lines into one option per marker line
RECURSIVE marker_loop(_, _, _, _, _)
marker_loop(parts, k, marker, current_option, opts) ==
    IF k > Len(parts) THEN
        \* add the last option
        IF current_option # <<>> THEN Append(opts, strip(current_option)) ELSE opts
    ELSE
        LET part == parts[k]
        IN  IF startswith(upper(strip(part)), marker) /\ contains(part, <<":">>)
            THEN marker_loop(parts, k + 1, marker, part,
                             IF current_option # <<>>
                             THEN Append(opts, strip(current_option)) ELSE opts)
            ELSE marker_loop(parts, k + 1, marker, current_option \o NL \o part, opts)

\* lines 225-240 (marker "OPTION ") and 244-259 (marker "DESIGN OPTION ")
split_by_marker(text, marker) == marker_loop(split_lines(text), 1, marker, <<>>, <<>>)

\* lines 263-267: the "i." markers that occur in the text, for i = 1..num_options
RECURSIVE numbered_parts(_, _, _)
numbered_parts(text, k, num) ==
    IF k > num THEN <<>>
    ELSE (IF contains(text, int_to_str(k) \o <<".">>)
          THEN <<int_to_str(k) \o <<".">>>> ELSE <<>>)
         \o numbered_parts(text, k + 1, num)

\* Python's s[start:end] for 0 <= start: empty when end <= start
py_slice(s, start, end) ==
    SubSeq(s, start + 1, IF end < Len(s) THEN end ELSE Len(s))

\* lines 269-280: cut the text from each marker's first occurrence to the next's
RECURSIVE numbered_loop(_, _, _)
numbered_loop(text, parts, k) ==
    IF k > Len(parts) THEN <<>>
    ELSE
        LET start_idx == find(text, parts[k])
        IN  (IF k < Len(parts)
             THEN LET end_idx == find(text, parts[k + 1])
                  IN  IF start_idx # -1 /\ end_idx # -1
                      THEN <<py_slice(text, start_idx, end_idx)>> ELSE <<>>
             ELSE IF start_idx # -1
                  THEN <<py_slice(text, start_idx, Len(text))>> ELSE <<>>)
            \o numbered_loop(text, parts, k + 1)

\* lines 261-282
numbered_split(text, num) == numbered_loop(text, numbered_parts(text, 1, num), 1)

\* lines 220-285: the options parsed from the reply, before padding
parse_options(text, num) ==
    IF contains(upper(text), OPTION_1) THEN split_by_marker(text, OPTION_)
    ELSE IF contains(upper(text), DESIGN_OPTION_1) THEN split_by_marker(text, DESIGN_OPTION_)
    ELSE IF contains(text, <<"1", ".">>) /\ contains(text, <<"2", ".">>)
         THEN numbered_split(text, num)
    ELSE <<text>>

RECURSIVE pad_label_off_by_one(_, _)
pad_label_off_by_one(opts, num) ==
    IF Len(opts) >= num THEN opts
    ELSE pad_label_off_by_one(
            Append(opts, DESIGN_VARIATION_ \o int_to_str(Len(opts)) \o <<":">> \o NL
                         \o opts[1]), num)

\* lines 288-293: add the first option again, as variations, up to num_options
RECURSIVE pad(_, _)
pad(opts, num) ==
    IF Len(opts) >= num THEN opts
    ELSE pad(Append(opts, DESIGN_VARIATION_ \o int_to_str(Len(opts) + 1) \o <<":">> \o NL
                          \o opts[1]), num)

truncate_none(opts, num) == opts

\* lines 296-297: options[:num_options]
truncate(opts, num) == IF Len(opts) > num THEN SubSeq(opts, 1, num) ELSE opts

\* generate_design_options(..., num_options), given what the API call gives.
\* An exception anywhere in the body (the API call, options[0] of an empty
\* list) is caught at line 301 and a one-element list is returned.
generate_design_options(reply, num) ==
    IF ~reply.ok THEN <<ERROR_GENERATING>>
    ELSE LET parsed == parse_options(reply.text, num)
         IN  IF parsed = <<>> /\ num > 0 THEN <<ERROR_GENERATING>>
             ELSE truncate(pad(parsed, num), num)

(* The replies the model draws from: an optional first line, then marker   *)
(* lines of one family numbered 1..n, each followed or not by a body line, *)
(* then an optional closing line.                                          *)

Preambles == {<<>>, <<<<>>>>, <<<<"H","e","r","e",":">>>>}
Closings == {<<>>, <<<<"E","n","j","o","y">>>>}
BodyLine == <<"-"," ","s","o","f","a">>

\* a family of marker lines: <prefix><n><sep> title
MarkerFamilies ==
    { [prefix |-> OPTION_, sep |-> <<":">>],
      [prefix |-> <<" ","o","p","t","i","o","n"," ">>, sep |-> <<":">>],
      [prefix |-> OPTION_, sep |-> <<" ", "-">>],
      [prefix |-> DESIGN_OPTION_, sep |-> <<":">>],
      [prefix |-> <<>>, sep |-> <<".">>],
      [prefix |-> <<"I","d","e","a"," ">>, sep |-> <<>>] }

marker_line(fam, n) == fam.prefix \o int_to_str(n) \o fam.sep \o <<" ", "t">>

\* the lines of sections 1..n; bodies is the set of sections that have a body line
RECURSIVE section_lines(_, _, _, _)
section_lines(fam, k, n, bodies) ==
    IF k > n THEN <<>>
    ELSE <<marker_line(fam, k)>> \o (IF k \in bodies THEN <<BodyLine>> ELSE <<>>)
         \o section_lines(fam, k + 1, n, bodies)

\* "\n".join(lines)
RECURSIVE join_lines(_)
join_lines(lines) ==
    IF lines = <<>> THEN <<>>
    ELSE IF Len(lines) = 1 THEN lines[1]
    ELSE lines[1] \o NL \o join_lines(Tail(lines))

ReplyTexts ==
    { join_lines(pre \o section_lines(fam, 1, n, bodies) \o post) :
        pre \in Preambles, fam \in MarkerFamilies, post \in Closings,
        n \in 0..MaxMarkers, bodies \in SUBSET (1..MaxMarkers) }

ApiFailure == [ok |-> FALSE, text |-> <<>>]

ParseInit ==
    /\ response_text \in {ApiFailure} \cup {[ok |-> TRUE, text |-> t] : t \in ReplyTexts}
    /\ num_options \in 1..MaxOptions
    /\ options = <<>>
    /\ ppc = "call"

\* one call of generate_design_options
Generate ==
    /\ ppc = "call"
    /\ options' = generate_design_options(response_text, num_options)
    /\ ppc' = "returned"
    /\ UNCHANGED <<response_text, num_options>>
    /\ UNCHANGED <<cvars, svars, avars>>

CurateIdle ==
    /\ dry_run = TRUE
    /\ limit = 0
    /\ api_key = FALSE
    /\ files = {}
    /\ sidecars = {}
    /\ files0 = {}
    /\ sidecars0 = {}
    /\ stats = ZeroStats
    /\ style_dirs = <<>>
    /\ style_name = ""
    /\ image_files = <<>>
    /\ idx = 0
    /\ results_file = FALSE
    /\ last = NoLast
    /\ cpc = "idle"

ParseNext == Generate

\* one call of generate_design_options on its own
ParseStart == ParseInit /\ CurateIdle /\ SessionIdle /\ AcquireIdle

SpecParse == ParseStart /\ [][ParseNext]_vars

-----------------------------------------------------------------------------
(* Claims about curation, checked under SpecCurate.                        *)

\* the step just taken processed one image
ImageProcessed == stats'.total_processed = stats.total_processed + 1

\* C1: in a dry run no image file and no metadata sidecar is ever deleted,
\* whatever the classifier answers.
C1_DryRunDeletesNothing ==
    dry_run => files = files0 /\ sidecars = sidecars0

\* a dry run has rejected an image that has a sidecar, and finished
C1_Witness ==
    /\ dry_run
    /\ cpc = "done"
    /\ last.kind = "API error: "
    /\ stats.removed = MaxImages
    /\ with_suffix_txt(last.file) \in sidecars

\* C2: an image whose API call raised is counted under errors, not under kept
\* or removed, and is left untouched on disk, in a dry run and in
\* destructive mode alike.
C2_ApiErrorIsCountedAndKept ==
    [][ (ImageProcessed /\ last'.kind = "API error: ") =>
          /\ stats'.errors = stats.errors + 1
          /\ stats'.removed = stats.removed
          /\ stats'.kept = stats.kept
          /\ files' = files
          /\ sidecars' = sidecars ]_vars

\* C3 as stated: in destructive mode a rejected image is deleted, and its
\* sidecar too when it exists; an accepted image and its sidecar are not.
C3_AsStated ==
    [][ (ImageProcessed /\ ~dry_run) =>
          LET f == last'.file
              m == with_suffix_txt(f)
          IN  IF last'.is_good
              THEN f \in files' /\ (m \in sidecars => m \in sidecars')
              ELSE f \notin files' /\ m \notin sidecars' ]_vars

\* C3 amended: in destructive mode a rejected image is deleted, and its
\* sidecar too when it exists, unless a deletion raises: when deleting the
\* image raises nothing is deleted, when deleting the sidecar raises only the
\* image is; processing an accepted image deletes nothing.
C3_DestructiveDeletes ==
    [][ (ImageProcessed /\ ~dry_run) =>
          LET f == last'.file
              m == with_suffix_txt(f)
          IN  IF last'.is_good
              THEN files' = files /\ sidecars' = sidecars
              ELSE IF ~last'.unlink_raised
              THEN /\ files' = files \ {f} /\ sidecars' = sidecars \ {m}
                   /\ f \in files
              ELSE IF last'.unlinked
              THEN files' = files \ {f} /\ sidecars' = sidecars /\ m \in sidecars
              ELSE files' = files /\ sidecars' = sidecars ]_vars

\* a destructive run has deleted a rejected image and the sidecar it had
C3_Witness ==
    /\ ~dry_run
    /\ ~last.is_good
    /\ last.kind = "detail"
    /\ last.unlinked /\ ~last.unlink_raised
    /\ last.file \in files0 \ files
    /\ with_suffix_txt(last.file) \in sidecars0 \ sidecars

\* C18: in destructive curation, when deleting a rejected image raises, the
\* error is counted in errors, globally and for the style, the image file is
\* left in place, its sidecar is not deleted, and processing continues with
\* the next image.
C18_FailedDeleteIsCountedAndKept ==
    [][ (ImageProcessed /\ ~dry_run /\ last'.unlink_raised /\ ~last'.unlinked) =>
          /\ ~last'.is_good
          /\ stats'.errors = stats.errors + 1
          /\ stats'.by_style[style_name].errors =
                 stats.by_style[style_name].errors + 1
          /\ last'.file \in files'
          /\ files' = files /\ sidecars' = sidecars
          /\ cpc' = "images" /\ idx' = idx + 1
          /\ style_name' = style_name /\ image_files' = image_files ]_vars

\* two images were rejected: deleting the first raised, its sidecar is still
\* there, and the second was deleted after it
C18_Witness ==
    /\ ~dry_run
    /\ stats.removed = 2 /\ stats.errors = 1
    /\ last.unlinked /\ ~last.unlink_raised
    /\ files0 \ files = {last.file}
    /\ \E f \in files : f # last.file /\ with_suffix_txt(f) \in sidecars

\* the model answered, and its reply holds neither YES nor NO once upper-cased
Unclear(reply) ==
    /\ reply.ok
    /\ ~contains(upper(strip(reply.text)), YES)
    /\ ~contains(upper(strip(reply.text)), NO)

\* what evaluate_image returns for the readable images and unclear replies
UnclearCases ==
    {[reply |-> reply, ev |-> evaluate_image(read, reply, NotCalled)] :
        read \in {r \in ReadOutcomes : api_called(r)},
        reply \in {r \in ApiReplies : Unclear(r)}}

\* C21: an image whose evaluation reply contains neither YES nor NO is a
\* reject: evaluate_image returns is_good = False with a reason that starts
\* with "Unclear evaluation", the image is counted as removed, and in
\* destructive mode it is deleted (or its failed deletion counted) like any
\* rejected image.
C21_UnclearReplyIsAReject ==
    [][ \A c \in UnclearCases :
          ProcessImageAs(c.ev) =>
              /\ ~c.ev.is_good
              /\ c.ev.kind = "Unclear evaluation: "
              /\ c.ev.text = upper(strip(c.reply.text))
              /\ ~last'.is_good
              /\ last'.kind = "Unclear evaluation: "
              /\ stats'.removed = stats.removed + 1
              /\ stats'.kept = stats.kept
              /\ dry_run => (files' = files /\ sidecars' = sidecars)
              /\ ~dry_run =>
                    \/ /\ last'.file \notin files'
                       /\ with_suffix_txt(last'.file) \notin sidecars'
                    \/ stats'.errors = stats.errors + 1 ]_vars

\* a destructive run has deleted an image whose reply was unclear
C21_Witness ==
    /\ ~dry_run
    /\ last.kind = "Unclear evaluation: "
    /\ last.unlinked
    /\ last.file \in files0
    /\ last.file \notin files
    /\ stats.removed >= 1

\* C22: with a positive limit L, process_directories never has more than L
\* images processed, over all style directories together, and a run over
\* directories that hold at least L images ends with exactly L processed.
C22_LimitBoundsTheRun ==
    (limit > 0 /\ cpc # "start") =>
        /\ stats.total_processed <= limit
        /\ (cpc = "done" /\ api_key /\ Cardinality(files0) >= limit) =>
                stats.total_processed = limit
        /\ (cpc = "done" /\ api_key /\ Cardinality(files0) < limit) =>
                stats.total_processed = Cardinality(files0)

\* a limited run has ended, having left out an image of each directory
C22_Witness ==
    /\ cpc = "done" /\ results_file
    /\ limit = 1
    /\ stats.total_processed = limit
    /\ \E f \in files0 : \E g \in files0 : f[1] = "boho" /\ g[1] = "nordic"
    /\ stats.by_style["boho"].total = 1
    /\ stats.by_style["nordic"].total = 0

RECURSIVE sum_by_style(_, _, _)
\* the sum of one per-style counter over the styles of S
sum_by_style(by_style, S, skey) ==
    IF S = {} THEN 0
    ELSE LET style == CHOOSE x \in S : TRUE
         IN  by_style[style][skey] + sum_by_style(by_style, S \ {style}, skey)

\* C25: after each processed image and at the end of the run, each of the
\* four global counters is the sum of its per-style counters, kept + removed
\* <= total_processed <= kept + removed + errors, and every processed image
\* adds one to exactly one of kept and removed (the model has no step that
\* raises outside the deletion, evaluate_image catching its own exceptions).
C25_StatsAddUp ==
    /\ [] ( LET S == DOMAIN stats.by_style
            IN  /\ stats.total_processed = sum_by_style(stats.by_style, S, "total")
                /\ stats.kept = sum_by_style(stats.by_style, S, "kept")
                /\ stats.removed = sum_by_style(stats.by_style, S, "removed")
                /\ stats.errors = sum_by_style(stats.by_style, S, "errors")
                /\ stats.kept + stats.removed <= stats.total_processed
                /\ stats.total_processed
                        <= stats.kept + stats.removed + stats.errors )
    /\ [][ ImageProcessed =>
             \/ /\ stats'.kept = stats.kept + 1
                /\ stats'.removed = stats.removed
             \/ /\ stats'.kept = stats.kept
                /\ stats'.removed = stats.removed + 1 ]_vars

\* a run over both directories has ended with an image kept in one, an image
\* removed in the other, and a failed deletion
C25_Witness ==
    /\ cpc = "done" /\ results_file
    /\ stats.total_processed = 2
    /\ stats.kept = 1 /\ stats.removed = 1 /\ stats.errors = 1
    /\ DOMAIN stats.by_style = {"boho", "nordic"}
    /\ stats.by_style["boho"].total = 1
    /\ stats.by_style["nordic"].total = 1

-----------------------------------------------------------------------------
(* Claims about the parser, checked under SpecParse.                       *)

Returned == ppc = "returned" /\ response_text.ok

\* the lines of the text that start with the prefix, in order
lines_starting(text, prefix) ==
    SelectSeq(split_lines(text), LAMBDA l : startswith(l, prefix))

\* the text holds exactly n lines starting with <prefix>, and the k-th of them
\* starts with <prefix>k:
MarkedBy(text, prefix, n) ==
    /\ Len(lines_starting(text, prefix)) = n
    /\ \A k \in 1..n :
          startswith(lines_starting(text, prefix)[k], prefix \o int_to_str(k) \o <<":">>)

\* C4: a reply with exactly five lines starting with OPTION n:, n = 1..5 in
\* order, whatever other lines surround them, gives with num_options = 5
\* exactly 5 segments, segment i beginning with the OPTION i line.
C4_FiveOptionsFiveSegments ==
    (Returned /\ num_options = 5 /\ MarkedBy(response_text.text, OPTION_, 5)) =>
        /\ Len(options) = 5
        /\ \A k \in 1..5 : startswith(options[k], OPTION_ \o int_to_str(k) \o <<":">>)

\* C5: a reply whose sections are marked by lines starting with
\* DESIGN OPTION n:, n = 1..N, the first line being the first marker, is split
\* into one segment per marker, each starting at its marker line.
C5_DesignOptionSplit ==
    (/\ Returned
     /\ num_options >= 1
     /\ MarkedBy(response_text.text, DESIGN_OPTION_, num_options)
     /\ startswith(response_text.text, DESIGN_OPTION_)) =>
        /\ Len(options) = num_options
        /\ \A k \in 1..num_options :
              startswith(options[k], DESIGN_OPTION_ \o int_to_str(k) \o <<":">>)

\* C6: when the API call succeeds the result holds exactly num_options
\* segments: the parsed ones, padded when fewer and cut to the first
\* num_options when more.
C6_ExactlyNumOptions ==
    Returned =>
        LET parsed == parse_options(response_text.text, num_options)
        IN  /\ Len(options) = num_options
            /\ \A k \in 1..num_options : k <= Len(parsed) => options[k] = parsed[k]

\* more segments were parsed than asked for
C6_Witness ==
    /\ Returned
    /\ Len(parse_options(response_text.text, num_options)) > num_options
    /\ num_options >= 2

\* the reply matches none of the three marker patterns (lines 223, 242, 261)
NoPattern(text) ==
    /\ ~contains(upper(text), OPTION_1)
    /\ ~contains(upper(text), DESIGN_OPTION_1)
    /\ ~(contains(text, <<"1", ".">>) /\ contains(text, <<"2", ".">>))

-----------------------------------------------------------------------------
(* The interactive flow: src/streamlit_app.py, main (below the API-key     *)
(* check of lines 316-322). Every user action is one click: the script run *)
(* that handles it and, after st.rerun(), the run that follows.            *)
(* session_state holds the keys the script itself sets.                    *)

NUM_IMAGES == 5         \* select_random_images' num_images
PER_STYLE == 2          \* images taken from one style
NUM_OPTIONS == 5        \* the num_options main asks for

\* the styles load_styles() finds on disk when there are any
SessionStyles ==
    << [name |-> "Boho", image_paths |-> <<"boho/a.jpg", "boho/b.jpg">>],
       [name |-> "Nordic", image_paths |-> <<"nordic/a.jpg">>] >>

\* load_styles(): [] when the directory or the images are missing
load_styles(found) == IF found THEN SessionStyles ELSE <<>>

\* the orders random.shuffle can leave a list in
Perms(s) ==
    { [k \in 1..Len(s) |-> s[f[k]]] :
        f \in {g \in [1..Len(s) -> 1..Len(s)] :
                 \A a, b \in 1..Len(s) : a # b => g[a] # g[b]} }

\* the styles after random.shuffle(styles) and random.shuffle(style_images)
Shuffles(styles) ==
    UNION { { t \in [1..Len(styles) ->
                      UNION {{[name |-> st.name, image_paths |-> q] :
                               q \in Perms(st.image_paths)} : st \in Range(styles)}] :
               \A k \in 1..Len(styles) : t[k].name = p[k].name }
            : p \in Perms(styles) }

\* lines 100-106: the selected images of one style, while there is room
RECURSIVE add_selected(_, _, _, _)
add_selected(all_images, selected, k, num_images) ==
    IF k > Len(selected) THEN all_images
    ELSE add_selected(IF Len(all_images) < num_images
                      THEN Append(all_images, selected[k]) ELSE all_images,
                      selected, k + 1, num_images)

\* lines 90-106, the styles being shuffled already
RECURSIVE select_loop(_, _, _, _)
select_loop(styles, k, all_images, num_images) ==
    IF k > Len(styles) \/ Len(all_images) >= num_images THEN all_images
    ELSE LET style_images == styles[k].image_paths
             selected == SubSeq(style_images, 1,
                                IF PER_STYLE < Len(style_images)
                                THEN PER_STYLE ELSE Len(style_images))
         IN  select_loop(styles, k + 1,
                         add_selected(all_images, selected, 1, num_images), num_images)

\* select_random_images(styles, num_images): (all_images, style_info)
select_random_images(styles, num_images) ==
    LET all_images == select_loop(styles, 1, <<>>, num_images)
    IN  [all_images |-> all_images,
         style_info |-> [img \in Range(all_images) |->
                           (CHOOSE st \in Range(styles) :
                               img \in Range(st.image_paths)).name]]

\* what one run of step 1 can select
Selections == {select_random_images(sh, NUM_IMAGES) : sh \in Shuffles(SessionStyles)}

\* the file-upload widget: no file, or a file that PIL can or cannot open
\* (a file without bytes is never an image)
NoUpload == [present |-> FALSE, bytes |-> <<>>, decodable |-> FALSE]
Uploads ==
    {NoUpload} \cup
    {u \in [present : {TRUE}, bytes : {<<>>, <<255, 216, 255>>}, decodable : BOOLEAN] :
        u.decodable => u.bytes # <<>>}

RoomTypes == {"Living Room", "Bedroom"}
RoomSizes == {"", "3x4 m"}

\* the replies the design request can get
SessionReplies ==
    { ApiFailure,
      [ok |-> TRUE, text |-> <<"A"," ","c","a","l","m"," ","r","o","o","m",".">>],
      [ok |-> TRUE, text |-> join_lines(section_lines(
            [prefix |-> OPTION_, sep |-> <<":">>], 1, NUM_OPTIONS, {}))] }

\* load_image_from_upload (lines 115-122)
load_image_from_upload(uploaded_file) ==
    IF uploaded_file.present
    THEN [none |-> FALSE, val |-> b64encode(uploaded_file.bytes)]
    ELSE [none |-> TRUE, val |-> <<>>]

has(ss, key) == key \in DOMAIN ss
del_keys(ss, keys) == [k \in DOMAIN ss \ keys |-> ss[k]]

\* the arguments line 471-477 passes to generate_design_options
design_request(ss) ==
    [liked_images |-> ss["liked_images"], disliked_images |-> ss["disliked_images"],
     room_image |-> ss["room_image"], room_type |-> ss["room_type"],
     room_size |-> ss["room_size"]]

generates_always(ss) == has(ss, "step") /\ ss["step"] = 3

\* whether a run of the script from ss calls generate_design_options (line 470)
generates(ss) == has(ss, "step") /\ ss["step"] = 3 /\ ~has(ss, "design_options")

\* One run of the script from session state ss: found is what load_styles()
\* finds, sel what select_random_images returns, reply what the API gives.
script_run(ss, found, sel, reply) ==
    LET s1 == IF has(ss, "step") THEN ss ELSE ("step" :> 1) @@ ss        \* 325-326
    IN  IF s1["step"] = 1 THEN
            IF load_styles(found) = <<>> THEN s1                         \* 338-339
            ELSE IF ~has(s1, "random_images") THEN                       \* 342-348
                ("random_images" :> sel.all_images) @@
                ("style_info" :> sel.style_info) @@
                ("current_index" :> 0) @@
                ("liked_images" :> <<>>) @@
                ("disliked_images" :> <<>>) @@ s1
            ELSE s1
        ELSE IF s1["step"] = 2 THEN s1
        ELSE IF ~has(s1, "design_options") THEN                          \* 470-479
            ("design_options" :> generate_design_options(reply, NUM_OPTIONS)) @@ s1
        ELSE s1

NoRequest == [liked_images |-> <<>>, disliked_images |-> <<>>, room_image |-> <<>>,
              room_type |-> "", room_size |-> ""]
NoSelection == [all_images |-> <<>>, style_info |-> <<>>]

\* the first run of a new session
SessionInit ==
    /\ \E found \in BOOLEAN :
       \E sel \in (IF found THEN Selections ELSE {NoSelection}) :
          /\ session_state = script_run(<<>>, found, sel, ApiFailure)
          /\ styles_loaded = found
    /\ reply_used = ApiFailure
    /\ gen_inputs = NoRequest
    /\ gen_calls = 0

\* the run that follows a handler: session_state, and what it recorded
Rerun(ss, calls) ==
    \E found \in (IF has(ss, "step") /\ ss["step"] # 1 THEN {TRUE} ELSE BOOLEAN) :
    \E sel \in (IF found /\ ~has(ss, "random_images") THEN Selections ELSE {NoSelection}) :
    \E reply \in (IF generates(ss) THEN SessionReplies ELSE {ApiFailure}) :
        /\ session_state' = script_run(ss, found, sel, reply)
        /\ styles_loaded' = found
        /\ IF generates(ss)
           THEN /\ reply_used' = reply
                /\ gen_inputs' = design_request(ss)
                /\ gen_calls' = calls + 1
           ELSE /\ UNCHANGED <<reply_used, gen_inputs>>
                /\ gen_calls' = calls

\* the widgets of step 1 are on the page
AtStep1 ==
    /\ has(session_state, "step") /\ session_state["step"] = 1
    /\ styles_loaded
    /\ has(session_state, "random_images")

SwipeShown ==
    AtStep1 /\ session_state["current_index"] < Len(session_state["random_images"])

SummaryShown ==
    AtStep1 /\ session_state["current_index"] >= Len(session_state["random_images"])

\* a click whose own run finds no styles returns at line 339: nothing is handled
ClickLost ==
    /\ styles_loaded' = FALSE
    /\ UNCHANGED <<session_state, reply_used, gen_inputs, gen_calls>>

like_without_advancing(ss, current_img) ==
    [ss EXCEPT !["liked_images"] = Append(@, current_img)]

\* lines 368-369: the handler of "Like"
like(ss, current_img) ==
    [ss EXCEPT !["liked_images"] = Append(@, current_img),
               !["current_index"] = @ + 1]

\* lines 374-375: the handler of "Dislike"
dislike(ss, current_img) ==
    [ss EXCEPT !["disliked_images"] = Append(@, current_img),
               !["current_index"] = @ + 1]

\* lines 367-370
Like ==
    /\ SwipeShown
    /\ \/ ClickLost
       \/ LET current_img ==
                  session_state["random_images"][session_state["current_index"] + 1]
          IN  Rerun(like(session_state, current_img), gen_calls)
    /\ UNCHANGED <<cvars, pvars, avars>>

\* lines 373-376
Dislike ==
    /\ SwipeShown
    /\ \/ ClickLost
       \/ LET current_img ==
                  session_state["random_images"][session_state["current_index"] + 1]
          IN  Rerun(dislike(session_state, current_img), gen_calls)
    /\ UNCHANGED <<cvars, pvars, avars>>

\* lines 400-403: the keys are deleted and the script reruns
ResetStylesHandled ==
    Rerun(del_keys(session_state,
                   {"random_images", "style_info", "current_index",
                    "liked_images", "disliked_images"}), gen_calls)

\* lines 399-403: "Reset & Try Different Styles"
ResetStyles ==
    /\ SummaryShown
    /\ \/ ClickLost
       \/ ResetStylesHandled
    /\ UNCHANGED <<cvars, pvars, avars>>

can_continue_always(ss) == TRUE

\* line 407: at least one image was liked
can_continue(ss) == ss["liked_images"] # <<>>

\* lines 406-411: "Continue to Room Upload"
Continue ==
    /\ SummaryShown
    /\ \/ ClickLost
       \/ IF ~can_continue(session_state)
          THEN UNCHANGED svars                      \* the warning of line 408
          ELSE Rerun([session_state EXCEPT !["step"] = 2], gen_calls)
    /\ UNCHANGED <<cvars, pvars, avars>>

\* line 418: "Back to Style Preferences", an on_click callback
BackToPreferences ==
    /\ has(session_state, "step") /\ session_state["step"] = 2
    /\ Rerun([session_state EXCEPT !["step"] = 1], gen_calls)
    /\ UNCHANGED <<cvars, pvars, avars>>

store_room_empty_image(ss, room_type, room_size, encoded_image) ==
    ("room_type" :> room_type) @@ ("room_size" :> room_size) @@
    ("room_image" :> <<>>) @@ ss

\* lines 454-456: the room is stored in the session
store_room(ss, room_type, room_size, encoded_image) ==
    ("room_type" :> room_type) @@ ("room_size" :> room_size) @@
    ("room_image" :> encoded_image) @@ ss

\* lines 426-460: "Generate Design Options", shown once PIL has opened the upload
GenerateDesignOptions ==
    /\ has(session_state, "step") /\ session_state["step"] = 2
    /\ \E room_type \in RoomTypes, room_size \in RoomSizes, uploaded_file \in Uploads :
        /\ uploaded_file.present /\ uploaded_file.decodable
        /\ LET encoded_image == load_image_from_upload(uploaded_file)
           IN  IF ~encoded_image.none /\ encoded_image.val # <<>>
               THEN Rerun([store_room(session_state, room_type, room_size,
                                      encoded_image.val) EXCEPT !["step"] = 3],
                          gen_calls)
               ELSE UNCHANGED svars
    /\ UNCHANGED <<cvars, pvars, avars>>

back_skips_to_step_1(ss) == [ss EXCEPT !["step"] = 1]

\* line 467: the callback of "Back to Room Upload"
back_to_room_upload(ss) == [ss EXCEPT !["step"] = 2]

\* line 467: "Back to Room Upload", an on_click callback
BackToRoomUpload ==
    /\ has(session_state, "step") /\ session_state["step"] = 3
    /\ Rerun(back_to_room_upload(session_state), gen_calls)
    /\ UNCHANGED <<cvars, pvars, avars>>

\* lines 500-503: "Start Over"
StartOver ==
    /\ has(session_state, "step") /\ session_state["step"] = 3
    /\ Rerun(del_keys(session_state, DOMAIN session_state), 0)
    /\ UNCHANGED <<cvars, pvars, avars>>

\* the user reruns the script without clicking anything
Refresh ==
    /\ Rerun(session_state, gen_calls)
    /\ UNCHANGED <<cvars, pvars, avars>>

SessionNext ==
    \/ Like
    \/ Dislike
    \/ ResetStyles
    \/ Continue
    \/ BackToPreferences
    \/ GenerateDesignOptions
    \/ BackToRoomUpload
    \/ StartOver
    \/ Refresh

\* a browser session of the app
SessionStart == SessionInit /\ CurateIdle /\ ParseIdle /\ AcquireIdle

SpecSession == SessionStart /\ [][SessionNext]_vars

Spec == SpecSession

-----------------------------------------------------------------------------
(* Acquisition: src/style_image_downloader.py                              *)

MIN_IMAGE_SIZE == 400           \* line 27
QUERIES_PER_KEYWORD == 3        \* the three search_queries of lines 269-273
MaxPhotos == 2                  \* photos in one search result
MaxQuota == 2                   \* the largest max_images tried

OPENAI_PLACEHOLDER == "your_openai_api_key_here"
PEXELS_PLACEHOLDER == "your_pexels_api_key_here"
OpenAIKeys == {"", OPENAI_PLACEHOLDER, "sk-live"}
PexelsKeys == {"", PEXELS_PLACEHOLDER, "px-live"}

\* the styles the model works with
BohoChic == [name |-> "Boho Chic", search_keywords |-> <<"rattan", "open plan">>]
Nordic == [name |-> "Nordic", search_keywords |-> <<"pine">>]
Plain == [name |-> "Plain", search_keywords |-> <<>>]
StyleLists ==
    {<<BohoChic>>, <<Nordic>>, <<BohoChic, Nordic>>, <<Nordic, BohoChic>>,
     <<Plain, Nordic>>}

\* style_name.replace(" ", "_").lower()
style_dir(name) ==
    CASE name = "Boho Chic" -> "boho_chic"
      [] name = "Nordic" -> "nordic"
      [] name = "Plain" -> "plain"

\* keyword.replace(' ', '_')
file_stem(keyword) == IF keyword = "open plan" THEN "open_plan" ELSE keyword

\* The photos a search can return, in the API's order.  fetch is what the GET
\* of src.large does, decodable whether PIL opens the bytes, width and height
\* the size of the decoded image, api_width and api_height the API's metadata.
PhotoPool ==
    << [id |-> 1, fetch |-> "ok", decodable |-> TRUE, width |-> 800, height |-> 600,
        api_width |-> 800, api_height |-> 600],
       [id |-> 2, fetch |-> "ok", decodable |-> TRUE, width |-> 399, height |-> 600,
        api_width |-> 1200, api_height |-> 800],
       [id |-> 3, fetch |-> "ok", decodable |-> TRUE, width |-> 640, height |-> 399,
        api_width |-> 640, api_height |-> 399],
       [id |-> 4, fetch |-> "ok", decodable |-> TRUE, width |-> 400, height |-> 400,
        api_width |-> 100, api_height |-> 100],
       [id |-> 5, fetch |-> "status", decodable |-> FALSE, width |-> 0, height |-> 0,
        api_width |-> 800, api_height |-> 600],
       [id |-> 6, fetch |-> "raises", decodable |-> FALSE, width |-> 0, height |-> 0,
        api_width |-> 800, api_height |-> 600],
       [id |-> 7, fetch |-> "ok", decodable |-> FALSE, width |-> 0, height |-> 0,
        api_width |-> 800, api_height |-> 600] >>

\* data.get("photos", []): up to MaxPhotos different photos
ApiResults ==
    { s \in UNION {[1..n -> Range(PhotoPool)] : n \in 0..MaxPhotos} :
        \A a, b \in DOMAIN s : a < b => s[a].id < s[b].id }

\* what one search request can give
SearchReplies ==
    { [kind |-> k, photos |-> <<>>] : k \in {"status", "raises", "bad_json"} }
    \cup { [kind |-> "photos", photos |-> r] : r \in ApiResults }

\* what the style-generation request can give
GenReplies ==
    { [kind |-> k, styles |-> <<>>] :
        k \in {"exception", "not_json", "no_styles_key", "styles"} }
    \cup { [kind |-> "styles", styles |-> L] : L \in StyleLists }

generate_lenient(key, reply) == [raised |-> "none", styles |-> reply.styles]

\* generate_interior_design_styles (lines 43-139): the styles, or what it raises
generate_interior_design_styles(key, reply) ==
    IF key = "" THEN [raised |-> "openai_key", styles |-> <<>>]
    ELSE IF reply.kind = "exception" THEN [raised |-> "exception", styles |-> <<>>]
    ELSE IF reply.kind = "not_json" THEN [raised |-> "not_json", styles |-> <<>>]
    ELSE IF reply.kind = "no_styles_key"
    THEN [raised |-> "no_styles_key", styles |-> <<>>]
    ELSE IF reply.styles = <<>> THEN [raised |-> "empty_styles", styles |-> <<>>]
    ELSE [raised |-> "none", styles |-> reply.styles]

\* setup_directory_structure (lines 141-168)
setup_directory_structure(d, styles) ==
    LET names == {style_dir(styles[k].name) : k \in DOMAIN styles}
    IN  [d EXCEPT !.dirs = @ \cup names, !.descriptions = @ \cup names]

\* lines 404-405
write_styles_file(d, styles) ==
    [d EXCEPT !.styles_file = "ok", !.styles_json = styles]

has_images_never(d, style) == FALSE

has_images(d, style) == \E f \in d.images : f[1] = style_dir(style.name)
has_dir(d, style) == style_dir(style.name) \in d.dirs

RECURSIVE select(_, _, _)
\* [style for style in styles if style in keep], in order
select(styles, keep, k) ==
    IF k > Len(styles) THEN <<>>
    ELSE (IF styles[k] \in keep THEN <<styles[k]>> ELSE <<>>)
         \o select(styles, keep, k + 1)

\* check_existing_styles_and_images (lines 170-231)
check_existing_styles_and_images(d) ==
    IF d.styles_file # "ok"
    THEN [existing_styles |-> <<>>, styles_with_images |-> <<>>,
          styles_without_images |-> <<>>, disk |-> d]
    ELSE
        LET existing == d.styles_json
            with == {s \in Range(existing) : has_dir(d, s) /\ has_images(d, s)}
            found == {style_dir(s.name) : s \in {t \in Range(existing) : has_dir(d, t)}}
        IN  [existing_styles |-> existing,
             styles_with_images |-> select(existing, with, 1),
             styles_without_images |-> select(existing, Range(existing) \ with, 1),
             disk |-> [d EXCEPT !.descriptions = @ \cup found]]

key_present_only(key, placeholder) == key = ""

\* lines 438, 448 and 249: the key is missing or is the placeholder
key_missing(key, placeholder) == key = "" \/ key = placeholder

api_size(photo) == <<photo.api_width, photo.api_height>>

\* line 328: img.size
img_size(photo) == <<photo.width, photo.height>>

\* line 332
large_enough(size) == size[1] >= MIN_IMAGE_SIZE /\ size[2] >= MIN_IMAGE_SIZE

count_stuck(total_downloaded) == total_downloaded

\* line 337
count_saved(total_downloaded) == total_downloaded + 1

\* the for loop over search_keywords takes the next keyword
next_keyword(d) == [d EXCEPT !.ki = @ + 1, !.qi = 1]

\* the for loop over search_queries takes the next query
next_query(d) ==
    IF d.qi < QUERIES_PER_KEYWORD THEN [d EXCEPT !.qi = @ + 1] ELSE next_keyword(d)

retry_query(d) == d

\* lines 288-290, 299-301, 357-358: the query gave nothing
after_failed_search(d) == next_query(d)

\* a style of styles.json has no directory, an empty one, or one with an image
\* (lists of two styles are tried with their directories in place)
Statuses(L) == IF Len(L) = 1 THEN {"nodir", "empty", "images"} ELSE {"empty", "images"}

\* room_styles/ with styles.json listing L, each style without a directory,
\* with an empty one, or with one that holds an image
disk_with(L, st) ==
    [styles_file |-> "ok", styles_json |-> L,
     dirs |-> {style_dir(L[k].name) : k \in {j \in DOMAIN L : st[j] # "nodir"}},
     descriptions |-> {style_dir(L[k].name) : k \in {j \in DOMAIN L : st[j] = "images"}},
     images |-> {<<style_dir(L[k].name), "old", 0>> :
                    k \in {j \in DOMAIN L : st[j] = "images"}},
     metas |-> {}]

InitialDisks ==
    {EmptyDisk, [EmptyDisk EXCEPT !.styles_file = "corrupt"],
     [EmptyDisk EXCEPT !.styles_file = "ok"]}
    \cup UNION { {disk_with(L, st) : st \in [DOMAIN L -> Statuses(L)]} : L \in StyleLists }

AcquireInit ==
    /\ env \in [openai_key : OpenAIKeys, pexels_key : PexelsKeys]
    /\ max_images \in 1..MaxQuota
    /\ disk \in InitialDisks
    /\ disk0 = disk
    /\ downloader = FALSE
    /\ rn = NoRun
    /\ dl = NoDownload
    /\ requested = {}
    /\ fault = "none"
    /\ apc = "main"

\* main (lines 435-459)
Main ==
    /\ apc = "main"
    /\ IF \/ key_missing(env.openai_key, OPENAI_PLACEHOLDER)
          \/ key_missing(env.pexels_key, PEXELS_PLACEHOLDER)
       THEN /\ apc' = "done"
            /\ UNCHANGED downloader
       ELSE /\ downloader' = TRUE
            /\ apc' = "run"
    /\ UNCHANGED <<env, max_images, disk, disk0, rn, dl, requested, fault>>
    /\ UNCHANGED <<cvars, pvars, svars>>

\* run, lines 368-389 and 408-411
CheckExisting ==
    /\ apc = "run"
    /\ LET c == check_existing_styles_and_images(disk)
       IN  /\ disk' = c.disk
           /\ rn' = [rn EXCEPT !.existing_styles = c.existing_styles,
                               !.styles_to_download = c.styles_without_images]
           /\ apc' = IF \/ c.existing_styles = <<>>
                        \/ (c.styles_with_images = <<>> /\ c.styles_without_images = <<>>)
                     THEN "generate"
                     ELSE IF c.styles_without_images = <<>> THEN "done" ELSE "loop"
    /\ UNCHANGED <<env, max_images, disk0, downloader, dl, requested, fault>>
    /\ UNCHANGED <<cvars, pvars, svars>>

\* run, lines 390-406
GenerateStyles ==
    /\ apc = "generate"
    /\ \E reply \in GenReplies :
        LET g == generate_interior_design_styles(env.openai_key, reply)
        IN  /\ requested' = IF g.raised = "openai_key" THEN requested
                            ELSE requested \cup {"openai"}
            /\ IF g.raised # "none"
               THEN /\ fault' = g.raised                     \* lines 432-433
                    /\ apc' = "done"
                    /\ rn' = [rn EXCEPT !.reply = reply]
                    /\ UNCHANGED disk
               ELSE IF g.styles = <<>>
               THEN /\ apc' = "done"                         \* lines 393-395
                    /\ rn' = [rn EXCEPT !.reply = reply]
                    /\ UNCHANGED <<disk, fault>>
               ELSE /\ disk' = write_styles_file(
                                   setup_directory_structure(disk, g.styles), g.styles)
                    /\ rn' = [rn EXCEPT !.styles_to_download = g.styles,
                                        !.reply = reply]
                    /\ apc' = "loop"
                    /\ UNCHANGED fault
    /\ UNCHANGED <<env, max_images, disk0, downloader, dl>>
    /\ UNCHANGED <<cvars, pvars, svars>>

\* the style download_pexels_images is working on
style == rn.styles_to_download[rn.i]
search_keywords == style.search_keywords

\* run, lines 416-422, and download_pexels_images, lines 235-265
BeginStyle ==
    /\ apc = "loop"
    /\ rn.i < Len(rn.styles_to_download)
    /\ LET next == rn.styles_to_download[rn.i + 1]
           keywords == next.search_keywords
       IN  IF keywords = <<>> THEN
               \* lines 237-239: return 0
               /\ rn' = [rn EXCEPT !.i = @ + 1]
               /\ dl' = NoDownload
               /\ UNCHANGED <<requested, fault, apc>>
           ELSE IF key_missing(env.pexels_key, PEXELS_PLACEHOLDER) THEN
               \* lines 249-251
               /\ rn' = [rn EXCEPT !.i = @ + 1]
               /\ dl' = NoDownload
               /\ fault' = "pexels_key"
               /\ apc' = "done"
               /\ UNCHANGED requested
           ELSE
               \* lines 254-265: the test request
               \E test \in {"ok", "status", "raises"} :
                   /\ rn' = [rn EXCEPT !.i = @ + 1]
                   /\ requested' = requested \cup {"validate"}
                   /\ IF test = "ok"
                      THEN /\ dl' = [NoDownload EXCEPT
                                        !.ki = 1, !.qi = 1,
                                        !.images_per_keyword =
                                            max_images \div Len(keywords)]
                           /\ apc' = "query"
                           /\ UNCHANGED fault
                      ELSE /\ dl' = NoDownload
                           /\ fault' = "validation"
                           /\ apc' = "done"
    /\ UNCHANGED <<env, max_images, disk, disk0, downloader>>
    /\ UNCHANGED <<cvars, pvars, svars>>

\* lines 276-277: the allowance is used up
SkipQueries ==
    /\ apc = "query"
    /\ dl.ki <= Len(search_keywords)
    /\ dl.total_downloaded >= dl.images_per_keyword
    /\ dl' = next_keyword(dl)
    /\ UNCHANGED <<env, max_images, disk, disk0, downloader, rn, requested, fault, apc>>
    /\ UNCHANGED <<cvars, pvars, svars>>

\* lines 279-308 and 357-358: one search request
SearchQuery ==
    /\ apc = "query"
    /\ dl.ki <= Len(search_keywords)
    /\ dl.total_downloaded < dl.images_per_keyword
    /\ requested' = requested \cup {"search"}
    /\ \E reply \in SearchReplies :
        IF reply.kind # "photos" \/ reply.photos = <<>>
        THEN /\ dl' = after_failed_search(
                        [dl EXCEPT !.outcome = IF reply.kind = "photos" THEN "empty"
                                               ELSE reply.kind])
             /\ UNCHANGED apc
        ELSE \E shuffled \in Perms(reply.photos) :
             LET remaining == dl.images_per_keyword - dl.total_downloaded
             IN  /\ dl' = [dl EXCEPT !.outcome = "photos",
                                     !.shuffled = shuffled,
                                     !.remaining = remaining,
                                     !.photos = py_prefix(shuffled, remaining),
                                     !.pi = 0,
                                     !.first = Len(dl.accepted),
                                     !.io_error = FALSE]
                 /\ apc' = "photos"
    /\ UNCHANGED <<env, max_images, disk, disk0, downloader, rn, fault>>
    /\ UNCHANGED <<cvars, pvars, svars>>

\* lines 311-351: one photo of the search result
DownloadPhoto ==
    /\ apc = "photos"
    /\ dl.pi < Len(dl.photos)
    /\ dl.total_downloaded < max_images
    /\ requested' = requested \cup {"image"}
    /\ LET photo == dl.photos[dl.pi + 1]
           file == <<style_dir(style.name), file_stem(search_keywords[dl.ki]), photo.id>>
           saved == [dl EXCEPT !.pi = @ + 1,
                               !.total_downloaded = count_saved(@),
                               !.accepted = Append(@, photo.id)]
       IN  IF photo.fetch = "ok" /\ photo.decodable /\ large_enough(img_size(photo))
           THEN \/ /\ disk' = [disk EXCEPT !.images = @ \cup {file},
                                           !.metas = @ \cup {file}]
                   /\ dl' = saved
                \/ \* img.save raises
                   /\ dl' = [dl EXCEPT !.pi = @ + 1, !.io_error = TRUE]
                   /\ UNCHANGED disk
                \/ \* writing the sidecar raises
                   /\ disk' = [disk EXCEPT !.images = @ \cup {file}]
                   /\ dl' = [saved EXCEPT !.io_error = TRUE]
           ELSE /\ dl' = [dl EXCEPT !.pi = @ + 1]
                /\ UNCHANGED disk
    /\ UNCHANGED <<env, max_images, disk0, downloader, rn, fault, apc>>
    /\ UNCHANGED <<cvars, pvars, svars>>

\* lines 312-313 and 353-355: the photos of the query are done
EndQuery ==
    /\ apc = "photos"
    /\ dl.pi = Len(dl.photos) \/ dl.total_downloaded >= max_images
    /\ LET d == [dl EXCEPT !.shuffled = <<>>, !.photos = <<>>, !.pi = 0,
                           !.remaining = 0, !.first = 0, !.io_error = FALSE]
       IN  dl' = IF dl.total_downloaded > 0 THEN next_keyword(d) ELSE next_query(d)
    /\ apc' = "query"
    /\ UNCHANGED <<env, max_images, disk, disk0, downloader, rn, requested, fault>>
    /\ UNCHANGED <<cvars, pvars, svars>>

\* lines 360-363 and 423-428: download_pexels_images returns
ReturnStyle ==
    /\ apc = "query"
    /\ dl.ki > Len(search_keywords)
    /\ rn' = [rn EXCEPT !.total_images = @ + dl.total_downloaded]
    /\ apc' = "loop"
    /\ UNCHANGED <<env, max_images, disk, disk0, downloader, dl, requested, fault>>
    /\ UNCHANGED <<cvars, pvars, svars>>

\* line 430
Finish ==
    /\ apc = "loop"
    /\ rn.i = Len(rn.styles_to_download)
    /\ apc' = "done"
    /\ UNCHANGED <<env, max_images, disk, disk0, downloader, rn, dl, requested, fault>>
    /\ UNCHANGED <<cvars, pvars, svars>>

AcquireNext ==
    \/ Main
    \/ CheckExisting
    \/ GenerateStyles
    \/ BeginStyle
    \/ SkipQueries
    \/ SearchQuery
    \/ DownloadPhoto
    \/ EndQuery
    \/ ReturnStyle
    \/ Finish

\* a run of the acquisition tool
AcquireStart == AcquireInit /\ CurateIdle /\ ParseIdle /\ SessionIdle

SpecAcquire == AcquireStart /\ [][AcquireNext]_vars

\* one of the two command-line tools is run
ToolStart ==
    \/ CurateInit /\ AcquireIdle /\ ParseIdle /\ SessionIdle
    \/ AcquireInit /\ CurateIdle /\ ParseIdle /\ SessionIdle

ToolNext == CurateNext \/ AcquireNext

SpecTools == ToolStart /\ [][ToolNext]_vars

-----------------------------------------------------------------------------
(* Claims about the interactive flow, checked under SpecSession.           *)

step == session_state["step"]

\* nothing is left of the liked and disliked selections and of the options
Cleared(ss) ==
    /\ has(ss, "step") /\ ss["step"] = 1
    /\ has(ss, "liked_images") => ss["liked_images"] = <<>>
    /\ has(ss, "disliked_images") => ss["disliked_images"] = <<>>
    /\ ~has(ss, "design_options")

\* C8: every reset, "Reset & Try Different Styles" at step 1 and "Start Over"
\* at step 3, leaves the session with no liked selections, no disliked
\* selections and no design options, at step 1.
C8_ResetClearsSession ==
    [][ ((SummaryShown /\ ResetStylesHandled) \/ StartOver) =>
          Cleared(session_state') ]_vars

C9_LikedAtLaterSteps ==
    step \in {2, 3} =>
        has(session_state, "liked_images") /\ session_state["liked_images"] # <<>>

\* C9: whenever the session is at step 2 or 3, liked_images exists and is not
\* empty, and "Continue to Room Upload" with no liked image leaves step at 1.
C9_ContinueNeedsALike ==
    /\ []C9_LikedAtLaterSteps
    /\ [][ (Continue /\ session_state["liked_images"] = <<>>) =>
             session_state'["step"] = 1 ]_vars

\* back at the summary of step 1 after a visit to step 3 and a reset, with
\* every image disliked: Continue is refused here
C9_Witness ==
    /\ SummaryShown
    /\ session_state["liked_images"] = <<>>
    /\ session_state["disliked_images"] # <<>>
    /\ has(session_state, "design_options")

C10_RoomAtStep3 ==
    step = 3 =>
        /\ has(session_state, "room_image") /\ session_state["room_image"] # <<>>
        /\ has(session_state, "room_type")
        /\ has(session_state, "room_size")

\* C10: step 3 is entered only from step 2, by "Generate Design Options" with
\* an upload whose encoding is not empty; at step 3 room_image, room_type and
\* room_size are set and room_image is not empty.
C10_Step3NeedsARoom ==
    /\ []C10_RoomAtStep3
    /\ [][ (step # 3 /\ session_state'["step"] = 3) =>
             /\ step = 2
             /\ GenerateDesignOptions
             /\ \E u \in Uploads :
                   /\ b64encode(u.bytes) # <<>>
                   /\ session_state'["room_image"] = b64encode(u.bytes) ]_vars

\* step 3 entered a second time, with an empty room_size
C10_Witness ==
    /\ step = 3
    /\ session_state["room_size"] = ""
    /\ gen_inputs.room_size # ""

\* C11: between two resets of a session, and from its start to the first
\* reset, generate_design_options is called at most once, however often the
\* user goes back from the results to the room upload and forward again.
C11_GeneratedOncePerSession ==
    /\ [](gen_calls <= 1)
    /\ [][ (GenerateDesignOptions /\ has(session_state, "design_options")) =>
             gen_calls' = gen_calls ]_vars

\* the results are shown for a second room although the one call was made
\* for the first
C11_Witness ==
    /\ step = 3
    /\ gen_calls = 1
    /\ session_state["room_type"] # gen_inputs.room_type

\* C12: every user action changes step by at most one, except "Start Over",
\* which returns to step 1; step 3 is never reached directly from step 1 and
\* step only takes the values 1, 2, 3.
C12_NoStepSkipped ==
    /\ [](has(session_state, "step") /\ step \in {1, 2, 3})
    /\ [][ /\ \/ session_state'["step"] - step \in {-1, 0, 1}
              \/ StartOver /\ session_state'["step"] = 1
           /\ ~(step = 1 /\ session_state'["step"] = 3) ]_vars

\* back at step 1 by "Start Over": a request was made once and nothing of the
\* session is left
C12_Witness ==
    /\ step = 1
    /\ gen_inputs # NoRequest
    /\ gen_calls = 0
    /\ ~has(session_state, "room_image")

\* C24: whenever step 3 shows design options, they are the options generated
\* from the room image, room type, room size and liked and disliked lists
\* that the session holds now.
C24_OptionsMatchTheSession ==
    ( /\ has(session_state, "step") /\ session_state["step"] = 3
      /\ has(session_state, "design_options") ) =>
        /\ gen_inputs = design_request(session_state)
        /\ session_state["design_options"]
              = generate_design_options(reply_used, NUM_OPTIONS)

\* C26: at step 1, once the candidate list is initialised, current_index =
\* len(liked_images) + len(disliked_images) <= len(random_images), the two
\* lists are disjoint and hold between them exactly the first current_index
\* candidates, each once, and the summary with "Continue to Room Upload" and
\* "Reset & Try Different Styles" is shown only when current_index =
\* len(random_images).
C26_SwipeBookkeeping ==
    ( /\ has(session_state, "step") /\ session_state["step"] = 1
      /\ has(session_state, "random_images") ) =>
        LET random_images == session_state["random_images"]
            current_index == session_state["current_index"]
            liked_images == session_state["liked_images"]
            disliked_images == session_state["disliked_images"]
        IN  /\ current_index = Len(liked_images) + Len(disliked_images)
            /\ current_index <= Len(random_images)
            /\ Range(liked_images) \cap Range(disliked_images) = {}
            /\ Range(liked_images) \cup Range(disliked_images)
                  = {random_images[k] : k \in 1..current_index}
            /\ Cardinality(Range(liked_images)) = Len(liked_images)
            /\ Cardinality(Range(disliked_images)) = Len(disliked_images)
            /\ SummaryShown => current_index = Len(random_images)
            /\ ~(SummaryShown /\ SwipeShown)

\* the summary of step 1 is shown after likes and dislikes
C26_Witness ==
    /\ SummaryShown
    /\ session_state["liked_images"] # <<>>
    /\ session_state["disliked_images"] # <<>>
    /\ session_state["current_index"] = Len(session_state["random_images"])
    /\ session_state["current_index"] >= 3

-----------------------------------------------------------------------------
(* Claims about acquisition, checked under SpecAcquire.                    *)

\* the step just taken handled one photo of the search result
PhotoProcessed == apc = "photos" /\ dl'.pi = dl.pi + 1
photo_at_hand == dl.photos[dl.pi + 1]
file_at_hand ==
    <<style_dir(style.name), file_stem(search_keywords[dl.ki]), photo_at_hand.id>>

\* C13: download_pexels_images never saves an image, writes its sidecar or
\* counts it in total_downloaded when the decoded width or height is below
\* MIN_IMAGE_SIZE; the dimensions used are those of the downloaded image,
\* not the API's metadata.
C13_SmallImagesAreRejected ==
    [][ PhotoProcessed =>
          /\ (photo_at_hand.width < 400 \/ photo_at_hand.height < 400) =>
                /\ disk' = disk
                /\ dl'.total_downloaded = dl.total_downloaded
                /\ dl'.accepted = dl.accepted
          /\ ( /\ photo_at_hand.fetch = "ok" /\ photo_at_hand.decodable
               /\ photo_at_hand.width >= 400 /\ photo_at_hand.height >= 400
               /\ ~dl'.io_error ) =>
                /\ file_at_hand \in disk'.images
                /\ dl'.total_downloaded = dl.total_downloaded + 1 ]_vars

\* a photo that is 399 wide, and large by the API's metadata, was downloaded
\* and nothing was saved
C13_Witness ==
    /\ apc = "photos"
    /\ dl.pi >= 1
    /\ dl.photos[dl.pi].width = 399 /\ dl.photos[dl.pi].api_width >= 400
    /\ disk.images = {} /\ disk.metas = {}
    /\ dl.total_downloaded = 0

RECURSIVE qualifying(_, _)
\* the ids of the photos from the k-th on that meet the threshold, in order
qualifying(photos, k) ==
    IF k > Len(photos) THEN <<>>
    ELSE (IF photos[k].width >= 400 /\ photos[k].height >= 400
          THEN <<photos[k].id>> ELSE <<>>) \o qualifying(photos, k + 1)

\* the ids accepted from the search result at hand
accepted_of_query == SubSeq(dl.accepted, dl.first + 1, Len(dl.accepted))

\* C14: for one search query, the images accepted are the first N photos of
\* the shuffled result that meet the threshold, N being the remaining
\* allowance (checked for results whose downloads and saves all succeed).
C14_FirstNQualifying ==
    ( /\ apc = "photos" /\ dl.pi = Len(dl.photos)
      /\ ~dl.io_error
      /\ \A k \in DOMAIN dl.shuffled :
            dl.shuffled[k].fetch = "ok" /\ dl.shuffled[k].decodable ) =>
        accepted_of_query =
            SubSeq(qualifying(dl.shuffled, 1), 1,
                   IF Len(qualifying(dl.shuffled, 1)) < dl.remaining
                   THEN Len(qualifying(dl.shuffled, 1)) ELSE dl.remaining)

\* C15: for one style, download_pexels_images never accepts more than
\* max_images images, returns at most max_images, and requests no image once
\* the accepted count has reached the quota.
C15_QuotaIsNeverExceeded ==
    /\ [](dl.total_downloaded <= max_images /\ Len(dl.accepted) <= max_images)
    /\ [][ PhotoProcessed =>
             dl.total_downloaded < max_images /\ Len(dl.accepted) < max_images ]_vars
    /\ [][ (apc = "query" /\ apc' = "loop") =>
             /\ rn'.total_images = rn.total_images + dl.total_downloaded
             /\ dl.total_downloaded = Len(dl.accepted) ]_vars

\* a style has returned with its quota of two images
C15_Witness ==
    /\ apc = "loop"
    /\ max_images = 2
    /\ dl.total_downloaded = max_images
    /\ Len(dl.accepted) = max_images

\* C16: a transient error met while processing one style, the validation
\* request included, is caught per item: at the end of a run that had styles
\* to download, the loop has taken every style of styles_to_download.
C16_EveryStyleIsProcessed ==
    (apc = "done" /\ rn.styles_to_download # <<>>) =>
        rn.i = Len(rn.styles_to_download)

\* the place of the query at hand in the style's keywords and queries
pos(d) == d.ki * (QUERIES_PER_KEYWORD + 1) + d.qi

\* the step just taken issued a search that gave a non-200 status or raised
SearchFailed ==
    /\ apc = "query"
    /\ dl.ki <= Len(search_keywords)
    /\ dl.total_downloaded < dl.images_per_keyword
    /\ dl'.outcome \in {"status", "raises", "bad_json"}

\* C17: a search query that returns a non-200 status or raises does not end
\* the style's download: the query is not issued again, the loop goes on to
\* the next query or keyword, and the function returns the count accepted so
\* far; a style with zero images returns 0 and run() goes on.
C17_FailedSearchMovesOn ==
    /\ [][ SearchFailed =>
             /\ apc' = "query" /\ fault' = "none"
             /\ pos(dl') > pos(dl)
             /\ dl'.total_downloaded = dl.total_downloaded
             /\ rn' = rn /\ disk' = disk ]_vars
    /\ [][ (rn'.i = rn.i /\ apc \in {"query", "photos"}) => pos(dl') >= pos(dl) ]_vars
    /\ [][ (apc = "query" /\ apc' # "query" /\ apc' # "photos") =>
             /\ apc' = "loop" /\ fault' = "none"
             /\ rn'.total_images = rn.total_images + dl.total_downloaded ]_vars

\* the first of two styles has returned 0 after its last search gave a
\* non-200 status, and the run is back in its loop
C17_Witness ==
    /\ apc = "loop"
    /\ rn.i = 1 /\ Len(rn.styles_to_download) = 2
    /\ dl.outcome = "status"
    /\ dl.total_downloaded = 0 /\ rn.total_images = 0

\* C19: with a required API key missing the entry point aborts before any
\* side effect: curation evaluates nothing, deletes nothing and writes no
\* results file; acquisition creates no downloader, issues no request and
\* writes no file.
C19_MissingKeyAborts ==
    /\ ~api_key =>
          /\ stats = ZeroStats /\ last = NoLast
          /\ files = files0 /\ sidecars = sidecars0
          /\ ~results_file
    /\ ( \/ env.openai_key \in {"", OPENAI_PLACEHOLDER}
         \/ env.pexels_key \in {"", PEXELS_PLACEHOLDER} ) =>
          /\ ~downloader
          /\ requested = {}
          /\ disk = disk0
          /\ rn = NoRun /\ dl = NoDownload

\* the acquisition tool has ended at the placeholder Pexels key although
\* styles.json lists styles without images
C19_Witness ==
    /\ apc = "done"
    /\ env.openai_key = "sk-live"
    /\ env.pexels_key = PEXELS_PLACEHOLDER
    /\ disk.styles_json # <<>> /\ disk.images = {}

\* the generation reply is one that makes style generation fail
BadGenReply(reply) ==
    \/ reply.kind \in {"exception", "not_json", "no_styles_key"}
    \/ reply.kind = "styles" /\ reply.styles = <<>>

\* C20: when style generation fails (API exception, content that is not JSON,
\* JSON without a styles key, an empty styles list) the error is raised out
\* of generate_interior_design_styles and run() ends without creating a
\* style directory, writing styles.json or downloading an image.
C20_FailedGenerationEndsRun ==
    /\ [][ (apc = "generate" /\ apc' # "generate" /\ BadGenReply(rn'.reply)) =>
             /\ fault' \in {"exception", "not_json", "no_styles_key", "empty_styles"}
             /\ apc' = "done"
             /\ disk' = disk ]_vars
    /\ [](BadGenReply(rn.reply) =>
             /\ apc = "done"
             /\ disk = disk0
             /\ requested = {"openai"}
             /\ rn.styles_to_download = <<>> /\ rn.i = 0)

\* the run has ended on a reply without a styles key, with nothing written
\* next to the unreadable styles.json
C20_Witness ==
    /\ apc = "done"
    /\ fault = "no_styles_key"
    /\ disk.styles_file = "corrupt"
    /\ disk.dirs = {}

\* the images the style at hand has on disk for its k-th keyword
images_of_keyword(k) ==
    {f \in disk.images :
        f[1] = style_dir(style.name) /\ f[2] = file_stem(search_keywords[k])}

\* C23: every keyword of a style has an allowance of its own of
\* max_images // len(search_keywords) images: a keyword is left without a
\* search only when that allowance is zero or the keyword has itself filled
\* it, whatever earlier keywords have contributed.
C23_EveryKeywordHasItsAllowance ==
    [][ SkipQueries =>
          \/ dl.images_per_keyword = 0
          \/ Cardinality(images_of_keyword(dl.ki)) >= dl.images_per_keyword ]_vars

\* the directories that held an image when the run started
dirs_with_images == {g[1] : g \in disk0.images}

\* C27: run() calls style generation exactly when no existing styles were
\* loaded from styles.json; when styles were loaded, only the styles without
\* an image file are downloaded, no image is added to a directory that
\* already held one, and styles.json is left as it was.
C27_GenerationOnlyWithoutStyles ==
    /\ [][ CheckExisting =>
             /\ rn'.existing_styles =
                    (IF disk.styles_file = "ok" THEN disk.styles_json ELSE <<>>)
             /\ (apc' = "generate") <=> (rn'.existing_styles = <<>>) ]_vars
    /\ [][ GenerateStyles => rn.existing_styles = <<>> ]_vars
    /\ [] ( rn.existing_styles # <<>> =>
              /\ "openai" \notin requested
              /\ disk.styles_file = disk0.styles_file
              /\ disk.styles_json = disk0.styles_json
              /\ \A k \in DOMAIN rn.styles_to_download :
                    /\ rn.styles_to_download[k] \in Range(disk0.styles_json)
                    /\ style_dir(rn.styles_to_download[k].name) \notin dirs_with_images
              /\ \A s \in Range(disk0.styles_json) :
                    style_dir(s.name) \notin dirs_with_images =>
                        s \in Range(rn.styles_to_download)
              /\ \A f \in disk.images \ disk0.images : f[1] \notin dirs_with_images )

\* a run over two loaded styles has ended: the one that had an image kept
\* it and got no other, the one without got an image
C27_Witness ==
    /\ apc = "done" /\ fault = "none"
    /\ Len(rn.existing_styles) = 2
    /\ Len(rn.styles_to_download) = 1
    /\ dirs_with_images # {}
    /\ disk.images \ disk0.images # {}
    /\ rn.total_images >= 1

====
